---- MODULE Spec2Model ----
(***************************************************************************)
(* The upload command of anaconda-client (binstar_client/commands/upload). *)
(* main() resolves the acting user, walks the sorted file list and, for    *)
(* each file, reconciles package -> release -> distribution against the    *)
(* remote repository through the server API.  Every server API call is one *)
(* step of the model and is appended to the history variable "calls".      *)
(***************************************************************************)
EXTENDS Integers, Sequences, FiniteSets, TLC

\* ------------------------------------------------------------------ bounds
\* Largest number of files in one batch.
MaxFiles == 2

\* ------------------------------------------------------------------ values
\* Python's None.
None == "None"

\* Package names are strings: sequences of characters.  NoName stands for a
\* name that is not there (None, a missing 'name' key, or the empty string).
NoName == <<>>
NameFoo == <<"f", "o", "o">>
NameBar == <<"b", "a", "r">>
V1 == "1.0"
BaseA == "a.tar"
BaseB == "b.tar"

\* args.mode as the argument parser sets it; None when no mode option is given.
Modes == {None, "fail", "force", "skip", "interactive"}

\* PackageType members the model distinguishes.
PackageTypes == {"conda", "pypi", "ipynb", "project"}

\* str.lower() on one character.
LowerChar(c) ==
    CASE c = "F" -> "f"
      [] c = "O" -> "o"
      [] c = "B" -> "b"
      [] c = "A" -> "a"
      [] c = "R" -> "r"
      [] OTHER -> c

\* str.lower()
Lower(s) == [i \in DOMAIN s |-> LowerChar(s[i])]

\* str.replace('-', '_')
ReplaceHyphen(s) == [i \in DOMAIN s |-> IF s[i] = "-" THEN "_" ELSE s[i]]

\* ------------------------------------------------------------------ state
VARIABLES
    args,               \* the parsed command line (immutable)
    config,             \* the loaded configuration (immutable)
    remote,             \* the remote repository: users, packages, releases, distributions
    files,              \* main: the sorted, duplicate-free file list
    idx,                \* main: position of the for loop in files (1-based)
    pc,                 \* where the program is
    summary_lines,      \* main: the "located at" lines logged after the loop
    username,           \* main: the acting user
    cur,                \* upload_package: locals of the artifact being reconciled
    calls,              \* history: every server API call issued, in order
    outcomes,           \* history: how each artifact's turn of the loop ended
    uploaded_packages,  \* main: (package, upload_info, package_type) of every upload that occurred
    uploaded_projects,  \* main: result of every project upload
    prompts,            \* history: every bool_input prompt shown and its answer
    ext,                \* number of changes other clients made to the remote repository
    disk,               \* what the files of this run can hold (immutable)
    probe,              \* a pure function under check: its arguments and its result
    hash,               \* compute_hash: the stream, the arguments and the locals
    err                 \* the exception that ended the run, None while there is none

vars == <<args, config, remote, files, idx, pc, summary_lines, username, cur, calls, outcomes,
          uploaded_packages, uploaded_projects, prompts, ext, disk, probe, hash, err>>

\* The state outside the upload command's own.
aux == <<disk, probe, hash>>
NoProbe == [fn |-> "none"]
NoHash == [pc |-> "none"]

NoCur == [package_name |-> NoName, version |-> None, basename |-> None,
          package_type |-> None, summary |-> None,
          attrs_name |-> NoName, attrs_version |-> None, nb_ok |-> TRUE,
          exists |-> TRUE]

\* ------------------------------------------------------------------ pure functions
\* get_package_name comparing the names as they are, without lower().
get_package_name_case_sensitive(args_package, attrs_name, package_type) ==
    IF args_package # NoName
    THEN IF attrs_name # NoName
         THEN LET good_names ==
                      {attrs_name} \cup
                      (IF package_type = "pypi" THEN {ReplaceHyphen(attrs_name)} ELSE {})
              IN  IF args_package \notin good_names
                  THEN [err |-> "name_mismatch", val |-> NoName]
                  ELSE [err |-> None, val |-> args_package]
         ELSE [err |-> None, val |-> args_package]
    ELSE IF attrs_name = NoName
         THEN [err |-> "no_name", val |-> NoName]
         ELSE [err |-> None, val |-> attrs_name]

\* get_package_name without the hyphen-to-underscore form of the extracted name.
get_package_name_exact(args_package, attrs_name, package_type) ==
    IF args_package # NoName
    THEN IF attrs_name # NoName
         THEN IF Lower(args_package) # Lower(attrs_name)
              THEN [err |-> "name_mismatch", val |-> NoName]
              ELSE [err |-> None, val |-> args_package]
         ELSE [err |-> None, val |-> args_package]
    ELSE IF attrs_name = NoName
         THEN [err |-> "no_name", val |-> NoName]
         ELSE [err |-> None, val |-> attrs_name]

\* get_package_name: the effective package name, or the error it raises.
get_package_name(args_package, attrs_name, package_type) ==
    IF args_package # NoName
    THEN IF attrs_name # NoName
         THEN LET good_names ==
                      {Lower(attrs_name)} \cup
                      (IF package_type = "pypi"
                       THEN {ReplaceHyphen(Lower(attrs_name))} ELSE {})
              IN  IF Lower(args_package) \notin good_names
                  THEN [err |-> "name_mismatch", val |-> NoName]
                  ELSE [err |-> None, val |-> args_package]
         ELSE [err |-> None, val |-> args_package]
    ELSE IF attrs_name = NoName
         THEN [err |-> "no_name", val |-> NoName]
         ELSE [err |-> None, val |-> attrs_name]

\* get_version returning whatever the file holds when no version is given,
\* without an error when it holds none.
get_version_without_error(args_version, attrs_version) ==
    IF args_version # None
    THEN [err |-> None, val |-> args_version]
    ELSE [err |-> None, val |-> attrs_version]

\* get_version taking the version of the file when it has one.
get_version_prefers_extracted(args_version, attrs_version) ==
    IF attrs_version # None
    THEN [err |-> None, val |-> attrs_version]
    ELSE IF args_version = None
         THEN [err |-> "no_version", val |-> None]
         ELSE [err |-> None, val |-> args_version]

\* get_version: the effective version, or the error it raises.
get_version(args_version, attrs_version) ==
    IF args_version # None
    THEN [err |-> None, val |-> args_version]
    ELSE IF attrs_version = None
         THEN [err |-> "no_version", val |-> None]
         ELSE [err |-> None, val |-> attrs_version]

\* allowed_package_types without the Conda / Standard-Python group.
allowed_package_types_no_group(package_types) == package_types

\* upload_package: the package types an existing package accepts.
allowed_package_types(package_types) ==
    package_types \cup
    (IF package_types \cap {"conda", "pypi"} # {} THEN {"conda", "pypi"} ELSE {})

\* upload_package: TRUE when the artifact's type is rejected for the package.
type_incompatible(package_types, package_type) ==
    package_types # {} /\ package_type \notin allowed_package_types(package_types)

\* acting_user taking the configured default without the existence lookup.
acting_user_trusts_config(args_user, upload_user) ==
    IF args_user # None THEN [username |-> args_user, validate_username |-> TRUE]
    ELSE IF upload_user # None THEN [username |-> upload_user, validate_username |-> FALSE]
    ELSE [username |-> None, validate_username |-> FALSE]

\* main: the user named by --user, else by the upload_user setting, else nobody
\* (the login of aserver_api.user() is taken), and whether aserver_api.user(username)
\* is called to see that the user exists.
acting_user(args_user, upload_user) ==
    IF args_user # None THEN [username |-> args_user, validate_username |-> TRUE]
    ELSE IF upload_user # None THEN [username |-> upload_user, validate_username |-> TRUE]
    ELSE [username |-> None, validate_username |-> FALSE]

\* file_check taking up the file without looking whether it exists.
file_check_unchecked(file_exists) == "process"

\* main: a file that does not exist ends the run with BinstarError.
file_check(file_exists) == IF file_exists THEN "process" ELSE "file_missing"

\* skip_notebook reading the notebook in force mode too.
skip_notebook_whatever_mode(package_type, mode, nb_ok) ==
    package_type = "ipynb" /\ ~nb_ok

\* main: a notebook that nbformat cannot read is skipped, unless the mode is force.
skip_notebook(package_type, mode, nb_ok) ==
    package_type = "ipynb" /\ ~(mode = "force") /\ ~nb_ok

\* add_package_not_found registering the package whatever auto_register says.
add_package_not_found_always_registers(auto_register, args_summary, attrs_summary) ==
    IF args_summary # None THEN "add_package"
    ELSE IF attrs_summary = None THEN "no_summary"
    ELSE "add_package"

\* The decisions below name what the code does next: the server call it goes on
\* to ("add_package", "add_release", "update_release", "distribution",
\* "remove_dist", "upload"), the exception it raises, or "return".

\* add_package, NotFound branch: create the package, or the error raised.
add_package_not_found(auto_register, args_summary, attrs_summary) ==
    IF ~auto_register THEN "no_namespace"
    ELSE IF args_summary # None THEN "add_package"
    ELSE IF attrs_summary = None THEN "no_summary"
    ELSE "add_package"

\* release_not_found creating the release only on the interactive path.
release_not_found_no_create(mode, answer) ==
    IF mode = "interactive"
    THEN IF ~answer THEN "SystemExit" ELSE "add_release"
    ELSE "distribution"

\* release_not_found creating the release whatever the operator answers.
release_not_found_ignores_answer(mode, answer) == "add_release"

\* add_release, NotFound branch, with create_release_interactive's first prompt:
\* create the release, or raise SystemExit(-1).
release_not_found(mode, answer) ==
    IF mode = "interactive"
    THEN IF ~answer THEN "SystemExit" ELSE "add_release"
    ELSE "add_release"

\* release_found leaving the release as it is whatever the flag says.
release_found_never_updates(force_metadata_update) == "distribution"

\* add_release, found branch: whether update_release is called.
release_found(force_metadata_update) ==
    IF force_metadata_update THEN "update_release" ELSE "distribution"

\* existing_file removing the distribution in fail mode as in force mode.
existing_file_fail_removes(mode, answer) ==
    IF mode \in {"force", "fail"} THEN "remove_dist"
    ELSE IF mode = "interactive"
         THEN IF answer THEN "remove_dist" ELSE "return"
         ELSE "upload"

\* existing_file removing the distribution in skip mode as in force mode.
existing_file_skip_removes(mode, answer) ==
    IF mode \in {"force", "skip"} THEN "remove_dist"
    ELSE IF mode = "interactive"
         THEN IF answer THEN "remove_dist" ELSE "return"
         ELSE "upload"

\* existing_file leaving the distribution in place in force mode.
existing_file_force_keeps(mode, answer) ==
    IF mode = "interactive"
    THEN IF answer THEN "remove_dist" ELSE "return"
    ELSE "upload"

\* existing_file going on to the upload when the operator declines.
existing_file_decline_uploads(mode, answer) ==
    IF mode = "force" THEN "remove_dist"
    ELSE IF mode = "interactive"
         THEN IF answer THEN "remove_dist" ELSE "upload"
         ELSE "upload"

\* existing_file uploading over the distribution the operator agreed to replace.
existing_file_accept_keeps(mode, answer) ==
    IF mode = "force" THEN "remove_dist"
    ELSE IF mode = "interactive"
         THEN IF answer THEN "upload" ELSE "return"
         ELSE "upload"

\* remove_existing_file after the distribution was found: remove it, return True
\* (upload_package then returns None without uploading), or go on to the upload
\* with the distribution in place.
existing_file(mode, answer) ==
    IF mode = "force" THEN "remove_dist"
    ELSE IF mode = "interactive"
         THEN IF answer THEN "remove_dist" ELSE "return"
         ELSE "upload"

\* create_conflict going on as if the package or release had been found.
create_conflict_handled(resource) == "proceed"

\* add_package, add_release: aserver_api.add_package and aserver_api.add_release
\* are called outside any try block, so their Conflict is raised to the caller.
create_conflict(resource) == "raise"

\* on_conflict trying the upload again.
on_conflict_retries(mode) == IF mode # "skip" THEN "upload" ELSE "skip"

\* on_conflict swallowing the Conflict in force mode as in skip mode.
on_conflict_force_swallows(mode) == IF mode \in {"skip", "force"} THEN "skip" ELSE "raise"

\* on_conflict swallowing the Conflict when no mode is given.
on_conflict_unset_skips(mode) == IF mode \in {"skip", None} THEN "skip" ELSE "raise"

\* on_conflict raising in skip mode too.
on_conflict_always_raises(mode) == "raise"

\* on_conflict swallowing the conflict in every mode.
on_conflict_never_raises(mode) == "skip"

\* upload_package, except errors.Conflict: "raise" again or swallow ("skip").
on_conflict(mode) == IF mode # "skip" THEN "raise" ELSE "skip"

\* propagate with a handler in the loop that logs a resolution error and goes on
\* to the next file.
propagate_caught(kind) ==
    IF kind \in {"no_name", "name_mismatch", "no_version", "no_summary", "type_incompatible"}
    THEN [pc |-> "next_file", idx |-> idx + 1, err |-> kind]
    ELSE [pc |-> "raised", idx |-> idx, err |-> kind]

\* main: an exception raised inside the for loop has no handler: it leaves main.
propagate(kind) == [pc |-> "raised", idx |-> idx, err |-> kind]

\* upload_info: the dict the upload returns; url is <<>> when it has no 'url'
\* key.  EmptyInfo is {} (falsy).
NoUrl == <<>>
EmptyInfo == [empty |-> TRUE, url |-> NoUrl]

\* record_upload without the test of upload_info.
record_upload_unchecked(package_info, package_type) ==
    IF Len(package_info) = 2
    THEN Append(uploaded_packages,
                [art |-> idx, package |-> package_info[1],
                 upload_info |-> package_info[2], package_type |-> package_type])
    ELSE uploaded_packages

\* main: uploaded_packages after upload_package returned package_info, which is
\* <<package_name, upload_info>> or <<>> for None.
record_upload(package_info, package_type) ==
    IF Len(package_info) = 2
    THEN IF ~package_info[2].empty
         THEN Append(uploaded_packages,
                     [art |-> idx, package |-> package_info[1],
                      upload_info |-> package_info[2], package_type |-> package_type])
         ELSE uploaded_packages
    ELSE uploaded_packages

\* ------------------------------------------------------------------ the remote repository
\* The server API as upload.py uses it: lookups answer found or NotFound from the
\* repository's state, creations answer Conflict when the resource is there already.
HasPackage(r, n) == n \in DOMAIN r.packages
HasRelease(r, n, v) == <<n, v>> \in r.releases
HasDist(r, n, v, b) == <<n, v, b>> \in r.dists

RemoteAddPackage(r, n, t) == [r EXCEPT !.packages = (n :> {t}) @@ r.packages]
RemoteAddRelease(r, n, v) == [r EXCEPT !.releases = @ \cup {<<n, v>>}]
RemoteRemoveDist(r, n, v, b) == [r EXCEPT !.dists = @ \ {<<n, v, b>>}]
RemoteUpload(r, n, v, b, t) ==
    [r EXCEPT !.dists = @ \cup {<<n, v, b>>},
              !.packages = [@ EXCEPT ![n] = @ \cup {t}]]

\* The 'url' a successful upload may report: one, or none.
RemoteUrls == {<<"remote-url">>, NoUrl}

\* A server API call as recorded in the history.
Call(op, key, res) == [art |-> idx, op |-> op, key |-> key, res |-> res]

\* ------------------------------------------------------------------ inputs
\* What detect_package_type and get_attrs yield for a file: the detected type
\* (None: undetected), whether get_attrs succeeds, the extracted attributes,
\* and whether nbformat can read the file.
Artifact(t, n, v, s, b) ==
    [detected |-> t, attrs_ok |-> TRUE, name |-> n, version |-> v, summary |-> s,
     basename |-> b, nb_ok |-> TRUE]

ArtifactChoices ==
    { Artifact("conda", NameFoo, V1, "s", BaseA),
      Artifact("conda", NameFoo, V1, "s", BaseB),
      Artifact("pypi", NameFoo, V1, "s", BaseA),
      Artifact("conda", NameBar, V1, "s", BaseA),
      Artifact("conda", NoName, V1, "s", BaseA),
      Artifact("conda", NameFoo, None, "s", BaseA),
      Artifact("conda", NameFoo, V1, None, BaseA),
      Artifact("ipynb", NameFoo, V1, "s", BaseA),
      [Artifact("ipynb", NameFoo, V1, "s", BaseA) EXCEPT !.nb_ok = FALSE],
      [Artifact("conda", NameFoo, V1, "s", BaseA) EXCEPT !.attrs_ok = FALSE],
      Artifact("project", NameFoo, V1, "s", BaseA),
      Artifact(None, NameFoo, V1, "s", BaseA) }

\* Remote repositories the run may start against: every release belongs to a
\* package and every distribution to a release.
RemoteChoices ==
    { [users |-> {"me", "org"}, packages |-> p, releases |-> rl, dists |-> d] :
        p \in {<<>>} \cup {(NameFoo :> {t}) : t \in {"conda", "ipynb"}},
        rl \in SUBSET {<<NameFoo, V1>>},
        d \in SUBSET {<<NameFoo, V1, BaseA>>} }

WellFormedRemote(r) ==
    /\ \A x \in r.releases : x[1] \in DOMAIN r.packages
    /\ \A x \in r.dists : <<x[1], x[2]>> \in r.releases

\* The paths of the positional arguments one after the other, as given.
RECURSIVE Flatten(_)
Flatten(file_args) ==
    IF file_args = <<>> THEN <<>> ELSE Head(file_args) \o Flatten(Tail(file_args))

\* sorted_files keeping the paths as given: no set, no sort.
sorted_files_as_given(file_args) == Flatten(file_args)

\* main: sorted(set(fitem for fglob in args.files for fitem in fglob)); paths are
\* numbered in their sort order.
sorted_files(file_args) ==
    LET flat == UNION { {g[i] : i \in DOMAIN g} : g \in {file_args[j] : j \in DOMAIN file_args} }
    IN  CHOOSE s \in [1..Cardinality(flat) -> flat] :
            \A i, j \in 1..Cardinality(flat) : i < j => s[i] < s[j]

\* args.files: one list of paths for each positional argument.
FileArgChoices == { <<[i \in 1..n |-> i]>> : n \in 1..MaxFiles }

ArgChoices ==
    [ mode : Modes, force_metadata_update : BOOLEAN, auto_register : BOOLEAN,
      package : {NoName, NameFoo}, version : {None, V1}, summary : {None, "s"},
      package_type : {None}, user : {None}, files : FileArgChoices ]

\* The argument parser puts -m/--force-metadata-update in the same mutually
\* exclusive group as the mode options.
ParsedArgs(a) == a.force_metadata_update => a.mode = None

\* ------------------------------------------------------------------ the program
\* main before its first statement: nothing resolved, nothing called.
Start ==
    /\ files = <<>>
    /\ idx = 0
    /\ pc = "user"
    /\ summary_lines = <<>>
    /\ username = None
    /\ cur = NoCur
    /\ calls = <<>>
    /\ outcomes = <<>>
    /\ uploaded_packages = <<>>
    /\ uploaded_projects = <<>>
    /\ prompts = <<>>
    /\ ext = 0
    /\ err = None

Init ==
    /\ args \in {a \in ArgChoices : ParsedArgs(a)}
    /\ config = [upload_user |-> None]
    /\ remote \in {r \in RemoteChoices : WellFormedRemote(r)}
    /\ disk = ArtifactChoices
    /\ Start
    /\ probe = NoProbe /\ hash = NoHash

\* The exceptions the run can end with, by what raised them.
ResolutionErrors == {"no_name", "name_mismatch", "no_version", "no_summary", "type_incompatible"}
Errors ==
    ResolutionErrors \cup
    {"user_not_found", "file_missing", "no_package_type", "bad_metadata", "no_namespace",
     "SystemExit", "Conflict", "conflict_package", "conflict_release", "not_found_dist"}

\* The class of the exception raised.
exception_class(kind) ==
    CASE kind = "no_namespace" -> "UserError"
      [] kind = "SystemExit" -> "SystemExit"
      [] kind \in {"Conflict", "conflict_package", "conflict_release"} -> "Conflict"
      [] kind = "not_found_dist" -> "NotFound"
      [] OTHER -> "BinstarError"

\* An exception leaves the loop (see propagate).
Raise(kind) ==
    LET p == propagate(kind)
    IN  /\ pc' = p.pc
        /\ idx' = p.idx
        /\ err' = p.err

\* The loop body ends for this file and the loop moves on.
EndArtifact(outcome) ==
    /\ pc' = "next_file"
    /\ idx' = idx + 1
    /\ cur' = NoCur
    /\ outcomes' = Append(outcomes, outcome)
    /\ err' = err

\* main, up to the for loop: resolve and validate the acting user, sort the files.
ResolveUser ==
    /\ pc = "user"
    /\ LET au == acting_user(args.user, config.upload_user)
           own == IF au.username = None
                  THEN <<Call("user", <<>>, "ok")>> ELSE <<>>
           name == IF au.username = None THEN "me" ELSE au.username
       IN  /\ username' = name
           /\ IF au.validate_username /\ name \notin remote.users
              THEN /\ calls' = calls \o own \o <<Call("user", <<name>>, "NotFound")>>
                   /\ pc' = "raised"
                   /\ err' = "user_not_found"
                   /\ UNCHANGED <<idx, files>>
              ELSE /\ calls' = calls \o own \o
                                (IF au.validate_username
                                 THEN <<Call("user", <<name>>, "ok")>> ELSE <<>>)
                   /\ pc' = "next_file"
                   /\ idx' = 1
                   /\ files' = sorted_files(args.files)
                   /\ err' = err
    /\ UNCHANGED <<aux, args, config, remote, cur, outcomes, uploaded_packages, uploaded_projects,
                   summary_lines, prompts, ext>>

\* One turn of the for loop up to the first server call of upload_package: the
\* existence check, determine_package_type, the notebook check, get_attrs,
\* get_package_name and get_version.
BeginArtifact ==
    /\ pc = "next_file"
    /\ idx <= Len(files)
    /\ \E file_exists \in BOOLEAN, a \in disk :
         LET package_type == IF args.package_type # None THEN args.package_type
                             ELSE a.detected
             name == get_package_name(args.package, a.name, package_type)
             version == get_version(args.version, a.version)
         IN  IF file_check(file_exists) # "process"
             THEN Raise(file_check(file_exists))
                  /\ UNCHANGED <<cur, outcomes, uploaded_projects>>
             ELSE IF package_type = None
             THEN Raise("no_package_type") /\ UNCHANGED <<cur, outcomes, uploaded_projects>>
             ELSE IF package_type = "project"
             THEN /\ EndArtifact("project")
                  /\ uploaded_projects' = Append(uploaded_projects, idx)
             ELSE IF skip_notebook(package_type, args.mode, a.nb_ok)
             THEN EndArtifact("invalid_notebook") /\ UNCHANGED uploaded_projects
             ELSE IF ~a.attrs_ok
             THEN Raise("bad_metadata") /\ UNCHANGED <<cur, outcomes, uploaded_projects>>
             ELSE IF name.err # None
             THEN Raise(name.err) /\ UNCHANGED <<cur, outcomes, uploaded_projects>>
             ELSE IF version.err # None
             THEN Raise(version.err) /\ UNCHANGED <<cur, outcomes, uploaded_projects>>
             ELSE /\ cur' = [package_name |-> name.val, version |-> version.val,
                             basename |-> a.basename, package_type |-> package_type,
                             summary |-> a.summary, attrs_name |-> a.name,
                             attrs_version |-> a.version, nb_ok |-> a.nb_ok,
                             exists |-> file_exists]
                  /\ pc' = "package"
                  /\ UNCHANGED <<idx, err, outcomes, uploaded_projects>>
    /\ UNCHANGED <<aux, args, config, remote, files, username, calls, uploaded_packages,
                   summary_lines, prompts, ext>>

\* The rest of a step that only issues a server call and moves on.
Step(next_pc) ==
    /\ pc' = next_pc
    /\ UNCHANGED <<idx, err, cur, outcomes>>

\* upload_package after add_package returned the package: the type check.
CheckPackageType(package_types) ==
    IF type_incompatible(package_types, cur.package_type)
    THEN Raise("type_incompatible") /\ UNCHANGED <<cur, outcomes>>
    ELSE Step("release")

\* add_package: aserver_api.package, and what follows without another server call.
LookupPackage ==
    /\ pc = "package"
    /\ IF HasPackage(remote, cur.package_name)
       THEN /\ calls' = Append(calls, Call("package", <<cur.package_name>>, "ok"))
            /\ CheckPackageType(remote.packages[cur.package_name])
       ELSE /\ calls' = Append(calls, Call("package", <<cur.package_name>>, "NotFound"))
            /\ LET todo == add_package_not_found(args.auto_register, args.summary, cur.summary)
               IN  IF todo \in Errors
                   THEN Raise(todo) /\ UNCHANGED <<cur, outcomes>>
                   ELSE Step(todo)
    /\ UNCHANGED <<aux, args, config, remote, files, username, uploaded_packages,
                   uploaded_projects, summary_lines, prompts, ext>>

\* add_package: aserver_api.add_package, then upload_package's type check.
CreatePackage ==
    /\ pc = "add_package"
    /\ IF HasPackage(remote, cur.package_name)
       THEN /\ calls' = Append(calls, Call("add_package", <<cur.package_name>>, "Conflict"))
            /\ remote' = remote
            /\ IF create_conflict("package") = "raise"
               THEN Raise("conflict_package") /\ UNCHANGED <<cur, outcomes>>
               ELSE CheckPackageType(remote.packages[cur.package_name])
       ELSE /\ calls' = Append(calls, Call("add_package", <<cur.package_name>>, "ok"))
            /\ remote' = RemoteAddPackage(remote, cur.package_name, cur.package_type)
            /\ CheckPackageType({cur.package_type})
    /\ UNCHANGED <<aux, args, config, files, username, uploaded_packages,
                   uploaded_projects, summary_lines, prompts, ext>>

\* A bool_input prompt as recorded in the history.
Prompt(question, answer) == [art |-> idx, question |-> question, answer |-> answer]

\* The answers bool_input can return, and the history after it: nothing is asked
\* and nothing recorded unless the mode is interactive.
Answers == IF args.mode = "interactive" THEN BOOLEAN ELSE {TRUE}
Asked(question, answer) ==
    IF args.mode = "interactive" THEN Append(prompts, Prompt(question, answer)) ELSE prompts

\* add_release: aserver_api.release, and on NotFound the interactive prompt.
LookupRelease ==
    /\ pc = "release"
    /\ LET key == <<cur.package_name, cur.version>>
       IN  IF HasRelease(remote, cur.package_name, cur.version)
           THEN /\ calls' = Append(calls, Call("release", key, "ok"))
                /\ prompts' = prompts
                /\ Step(release_found(args.force_metadata_update))
           ELSE /\ calls' = Append(calls, Call("release", key, "NotFound"))
                /\ \E answer \in Answers :
                     LET todo == release_not_found(args.mode, answer)
                     IN  /\ prompts' = Asked("create_release", answer)
                         /\ IF todo \in Errors
                            THEN Raise(todo) /\ UNCHANGED <<cur, outcomes>>
                            ELSE Step(todo)
    /\ UNCHANGED <<aux, args, config, remote, files, username, uploaded_packages,
                   uploaded_projects, summary_lines, ext>>

\* add_release: aserver_api.update_release.
UpdateRelease ==
    /\ pc = "update_release"
    /\ calls' = Append(calls, Call("update_release", <<cur.package_name, cur.version>>, "ok"))
    /\ Step("distribution")
    /\ UNCHANGED <<aux, args, config, remote, files, username, uploaded_packages,
                   uploaded_projects, summary_lines, prompts, ext>>

\* create_release / create_release_interactive: aserver_api.add_release.
CreateRelease ==
    /\ pc = "add_release"
    /\ LET key == <<cur.package_name, cur.version>>
       IN  IF HasRelease(remote, cur.package_name, cur.version)
           THEN /\ calls' = Append(calls, Call("add_release", key, "Conflict"))
                /\ remote' = remote
                /\ IF create_conflict("release") = "raise"
                   THEN Raise("conflict_release") /\ UNCHANGED <<cur, outcomes>>
                   ELSE Step("distribution")
           ELSE /\ calls' = Append(calls, Call("add_release", key, "ok"))
                /\ remote' = RemoteAddRelease(remote, cur.package_name, cur.version)
                /\ Step("distribution")
    /\ UNCHANGED <<aux, args, config, files, username, uploaded_packages,
                   uploaded_projects, summary_lines, prompts, ext>>

\* remove_existing_file: aserver_api.distribution, and the replace prompt.
LookupDist ==
    /\ pc = "distribution"
    /\ LET key == <<cur.package_name, cur.version, cur.basename>>
       IN  IF ~HasDist(remote, cur.package_name, cur.version, cur.basename)
           THEN /\ calls' = Append(calls, Call("distribution", key, "NotFound"))
                /\ prompts' = prompts
                /\ Step("upload")
           ELSE /\ calls' = Append(calls, Call("distribution", key, "ok"))
                /\ \E answer \in Answers :
                     LET todo == existing_file(args.mode, answer)
                     IN  /\ prompts' = Asked("replace", answer)
                         /\ IF todo = "return" THEN EndArtifact("none") ELSE Step(todo)
    /\ UNCHANGED <<aux, args, config, remote, files, username, uploaded_packages,
                   uploaded_projects, summary_lines, ext>>

\* remove_existing_file: aserver_api.remove_dist.
RemoveDist ==
    /\ pc = "remove_dist"
    /\ LET key == <<cur.package_name, cur.version, cur.basename>>
       IN  IF HasDist(remote, cur.package_name, cur.version, cur.basename)
           THEN /\ calls' = Append(calls, Call("remove_dist", key, "ok"))
                /\ remote' = RemoteRemoveDist(remote, cur.package_name, cur.version, cur.basename)
                /\ Step("upload")
           ELSE /\ calls' = Append(calls, Call("remove_dist", key, "NotFound"))
                /\ Raise("not_found_dist")
                /\ UNCHANGED <<remote, cur, outcomes>>
    /\ UNCHANGED <<aux, args, config, files, username, uploaded_packages,
                   uploaded_projects, summary_lines, prompts, ext>>

\* upload_package: aserver_api.upload, the Conflict handler and the return;
\* main: the bookkeeping of the returned package_info.
Upload ==
    /\ pc = "upload"
    /\ LET key == <<cur.package_name, cur.version, cur.basename>>
       IN  IF HasDist(remote, cur.package_name, cur.version, cur.basename)
           THEN /\ calls' = Append(calls, Call("upload", key, "Conflict"))
                /\ remote' = remote
                /\ LET todo == on_conflict(args.mode)
                   IN  IF todo = "raise"
                       THEN /\ Raise("Conflict")
                            /\ UNCHANGED <<cur, outcomes, uploaded_packages>>
                       ELSE IF todo = "skip"
                       THEN /\ uploaded_packages' =
                                   record_upload(<<cur.package_name, EmptyInfo>>,
                                                 cur.package_type)
                            /\ EndArtifact("no_upload")
                       ELSE Step(todo) /\ UNCHANGED uploaded_packages
           ELSE \E url \in RemoteUrls :
                /\ calls' = Append(calls, Call("upload", key, "ok"))
                /\ remote' = RemoteUpload(remote, cur.package_name, cur.version,
                                          cur.basename, cur.package_type)
                /\ uploaded_packages' =
                       record_upload(<<cur.package_name, [empty |-> FALSE, url |-> url]>>,
                                     cur.package_type)
                /\ EndArtifact("uploaded")
    /\ UNCHANGED <<aux, args, config, files, username, uploaded_projects, summary_lines, prompts, ext>>

\* package_url putting the url together whatever the upload reported.
package_url_always_built(upload_info, package) ==
    <<"https://anaconda.org", username, package>>

\* main: 'https://anaconda.org/%s/%s' % (username, package) unless the upload reported a url.
package_url(upload_info, package) ==
    IF upload_info.url # NoUrl THEN upload_info.url
    ELSE <<"https://anaconda.org", username, package>>

\* main after the loop: one "located at" line for each entry of uploaded_packages.
Summary ==
    /\ pc = "next_file"
    /\ idx > Len(files)
    /\ summary_lines' = [i \in DOMAIN uploaded_packages |->
                             [art |-> uploaded_packages[i].art,
                              package_type |-> uploaded_packages[i].package_type,
                              url |-> package_url(uploaded_packages[i].upload_info,
                                                  uploaded_packages[i].package)]]
    /\ pc' = "end"
    /\ UNCHANGED <<aux, args, config, remote, files, idx, username, cur, calls, outcomes,
                   uploaded_packages, uploaded_projects, prompts, ext, err>>

Next ==
    \/ ResolveUser
    \/ BeginArtifact
    \/ LookupPackage
    \/ CreatePackage
    \/ LookupRelease
    \/ UpdateRelease
    \/ CreateRelease
    \/ LookupDist
    \/ RemoveDist
    \/ Upload
    \/ Summary

\* The engine alone against the remote repository: no other client changes it
\* during the run.
Spec == Init /\ [][Next]_vars

\* ------------------------------------------------------------------ other clients
\* Largest number of changes other clients make during one run.
MaxExternal == 1

\* Another client of the repository creates the package, creates the release,
\* uploads the distribution or removes the distribution the engine is working
\* on, between two of the engine's server calls.
ExternalActor ==
    /\ pc \in {"package", "add_package", "release", "update_release", "add_release",
               "distribution", "remove_dist", "upload"}
    /\ ext < MaxExternal
    /\ LET n == cur.package_name
           v == cur.version
           b == cur.basename
       IN  \E op \in {"add_package", "add_release", "upload", "remove_dist"} :
             CASE op = "add_package" ->
                    /\ ~HasPackage(remote, n)
                    /\ remote' = RemoteAddPackage(remote, n, cur.package_type)
               [] op = "add_release" ->
                    /\ HasPackage(remote, n) /\ ~HasRelease(remote, n, v)
                    /\ remote' = RemoteAddRelease(remote, n, v)
               [] op = "upload" ->
                    /\ HasRelease(remote, n, v) /\ ~HasDist(remote, n, v, b)
                    /\ remote' = RemoteUpload(remote, n, v, b, cur.package_type)
               [] op = "remove_dist" ->
                    /\ HasDist(remote, n, v, b)
                    /\ remote' = RemoteRemoveDist(remote, n, v, b)
    /\ ext' = ext + 1
    /\ UNCHANGED <<aux, args, config, files, idx, pc, summary_lines, username, cur, calls,
                   outcomes, uploaded_packages, uploaded_projects, prompts, err>>

\* Runs on one file with no command line overrides of name, version or summary.
InitRace ==
    /\ Init
    /\ args.package = NoName /\ args.version = None /\ args.summary = None
    /\ Len(args.files[1]) = 1

NextRace == Next \/ ExternalActor

\* The engine with other clients changing the repository during the run.
SpecRace == InitRace /\ [][NextRace]_vars

\* The most positional arguments of a command line.
MaxGlobs == 2

\* What one positional argument expands to: one path, or two out of order or
\* the same path twice.
GlobChoices ==
    {<<p>> : p \in 1..MaxFiles} \cup
    {<<p, q>> : <<p, q>> \in {x \in (1..MaxFiles) \X (1..MaxFiles) : x[1] >= x[2]}}

\* args.files with several positional arguments, overlapping and unordered.
FileListChoices ==
    UNION { [1..n -> GlobChoices] : n \in 1..MaxGlobs }

\* Files that go through the whole of upload_package, and one that main skips
\* without a server call.
FilesDisk ==
    { a \in ArtifactChoices :
        \/ a.detected = "conda" /\ a.attrs_ok /\ a.name = NameFoo /\ a.version # None
           /\ a.summary # None
        \/ a.detected = "ipynb" /\ ~a.nb_ok }

\* Command lines that differ in their file arguments, in force mode or with
\* --force-metadata-update, against a repository without packages.
InitFiles ==
    /\ args \in { [a EXCEPT !.files = f] :
                    a \in { a \in ArgChoices :
                              /\ ParsedArgs(a)
                              /\ a.auto_register
                              /\ a.mode = "force" \/ a.force_metadata_update
                              /\ a.package = NoName /\ a.version = None
                              /\ a.summary = None },
                    f \in FileListChoices }
    /\ config = [upload_user |-> None]
    /\ remote \in {r \in RemoteChoices : r.packages = <<>> /\ WellFormedRemote(r)}
    /\ disk = FilesDisk
    /\ Start
    /\ probe = NoProbe /\ hash = NoHash

\* The engine over the file arguments of the command line.
SpecFiles == InitFiles /\ [][Next]_vars

\* A file whose name differs from foo by case, with a version of its own.
NameFooCap == <<"F", "o", "o">>
V2 == "2.0"

\* Command lines on one file, with and without --user, --package and --version,
\* under configurations with and without upload_user; "ghost" is no user of
\* the repository.
InitInputs ==
    /\ args \in { [a EXCEPT !.user = u] :
                    a \in { a \in ArgChoices :
                              /\ ParsedArgs(a)
                              /\ a.auto_register /\ a.summary = None
                              /\ Len(a.files[1]) = 1 },
                    u \in {None, "me", "org", "ghost"} }
    /\ config \in [upload_user : {None, "org", "ghost"}]
    /\ remote \in {r \in RemoteChoices : WellFormedRemote(r)}
    /\ disk = ArtifactChoices \cup {Artifact("conda", NameFooCap, V2, "s", BaseA)}
    /\ Start
    /\ probe = NoProbe /\ hash = NoHash

\* The engine over the ways of naming the user, the package and the version.
SpecInputs == InitInputs /\ [][Next]_vars

\* ------------------------------------------------------------------ functions applied
\* The longest name given to get_package_name.
MaxNameLen == 2

\* Characters of names: a letter in both cases, and the two separators.
NameChars == {"a", "A", "-", "_"}

NameChoices ==
    {NoName} \cup UNION { [1..n -> NameChars] : n \in 1..MaxNameLen }

\* get_package_name's arguments: args.package, package_attrs.get('name'), package_type.
NameProbes ==
    [ fn : {"get_package_name"}, args_package : NameChoices, attrs_name : NameChoices,
      package_type : {"conda", "pypi", "ipynb"},
      result : {[err |-> "pending", val |-> NoName]} ]

\* The type check's arguments: the package's package_types and the artifact's type.
TypeProbes ==
    [ fn : {"type_check"}, package_types : SUBSET PackageTypes, package_type : PackageTypes,
      result : {"pending"} ]

\* The upload command not started, on no files.
Parked ==
    /\ args = [mode |-> None, force_metadata_update |-> FALSE, auto_register |-> TRUE,
               package |-> NoName, version |-> None, summary |-> None,
               package_type |-> None, user |-> None, files |-> <<>>]
    /\ config = [upload_user |-> None]
    /\ remote = [users |-> {}, packages |-> <<>>, releases |-> {}, dists |-> {}]
    /\ disk = {}
    /\ Start

InitPure ==
    /\ Parked
    /\ probe \in NameProbes \cup TypeProbes
    /\ hash = NoHash

\* upload_package: package_name = get_package_name(args, package_attrs, package_type)
ApplyGetPackageName ==
    /\ probe.fn = "get_package_name" /\ probe.result.err = "pending"
    /\ probe' = [probe EXCEPT !.result =
                     get_package_name(probe.args_package, probe.attrs_name, probe.package_type)]
    /\ UNCHANGED <<args, config, remote, files, idx, pc, summary_lines, username, cur, calls,
                   outcomes, uploaded_packages, uploaded_projects, prompts, ext, disk, hash, err>>

\* upload_package: the check of package_type against the package's package_types.
ApplyTypeCheck ==
    /\ probe.fn = "type_check" /\ probe.result = "pending"
    /\ probe' = [probe EXCEPT !.result =
                     IF type_incompatible(probe.package_types, probe.package_type)
                     THEN "type_incompatible" ELSE "accepted"]
    /\ UNCHANGED <<args, config, remote, files, idx, pc, summary_lines, username, cur, calls,
                   outcomes, uploaded_packages, uploaded_projects, prompts, ext, disk, hash, err>>

NextPure ==
    \/ ApplyGetPackageName
    \/ ApplyTypeCheck

\* get_package_name and the type check, each applied once to its arguments.
SpecPure == InitPure /\ [][NextPure]_vars

\* ------------------------------------------------------------------ compute_hash
\* The longest stream and the largest buf_size.
MaxData == 4
MaxBuf == 2

Bytes == {"x", "y"}

\* hashlib.md5 as a digest that tells any two inputs apart, and its two encodings.
md5(content) == [md5 |-> content]
hexdigest(digest) == [hex |-> digest]

\* b64encode: base64.encodebytes, whose output ends with a newline.
b64encode(content) == [base64 |-> content, newline |-> TRUE]

\* str.rstrip('\n')
rstrip(text) == [text EXCEPT !.newline = FALSE]

\* The size argument counts as given when it is neither None nor 0.
Truthy(given, size) == given /\ size # 0

\* read_size asking for the whole buffer whatever is left of the limit.
read_size_whole_buffer(given, size, buf_size) == buf_size

\* compute_hash: the number of bytes the next file.read asks for.
read_size(given, size, buf_size) ==
    IF Truthy(given, size) /\ size < buf_size THEN size ELSE buf_size

\* What file.read(n) may return at position pos: the next n bytes or all that
\* are left; a stream that reads short may return any non-empty part of them.
Read(data, pos, n, short) ==
    LET most == IF n <= Len(data) - pos THEN n ELSE Len(data) - pos
    IN  IF most = 0 THEN {<<>>}
        ELSE { SubSeq(data, pos + 1, pos + k) : k \in (IF short THEN 1 ELSE most)..most }

\* restored_position leaving the stream where the last read ended.
restored_position_unmoved(spos, pos) == pos

\* compute_hash: file.seek(spos).
restored_position(spos, pos) == spos

\* compute_hash's return value.
hash_result(fed, spos, pos) ==
    [hex_digest |-> hexdigest(md5(fed)),
     base64_digest |-> rstrip(b64encode(md5(fed))),
     data_size |-> pos - spos]

\* Streams of up to MaxData bytes at any position, with any buf_size and any
\* size argument, None included (given FALSE).
HashChoices ==
    { [pc |-> "call", data |-> d, pos |-> p, short |-> sh, buf_size |-> b,
       given |-> g, limit |-> l, size |-> 0, spos |-> 0, chunk |-> <<>>, fed |-> <<>>,
       requested |-> <<>>, results |-> <<>>] :
        d \in UNION { [1..n -> Bytes] : n \in 0..MaxData },
        p \in 0..MaxData, sh \in BOOLEAN, b \in 1..MaxBuf,
        g \in BOOLEAN, l \in 0..(MaxData + 1) }

InitHash ==
    /\ Parked
    /\ probe = NoProbe
    /\ hash \in { h \in HashChoices : h.pos <= Len(h.data) /\ (~h.given => h.limit = 0) }

\* A file.read(n) as recorded in the history: the call of compute_hash it
\* belongs to, and the bytes that call had read before it.
Request(n, consumed) == [call |-> Len(hash.results) + 1, n |-> n, consumed |-> consumed]

\* compute_hash up to the loop: file.tell() and the first file.read.
HashCall ==
    /\ hash.pc = "call"
    /\ LET n == read_size(hash.given, hash.limit, hash.buf_size)
       IN  \E chunk \in Read(hash.data, hash.pos, n, hash.short) :
             hash' = [hash EXCEPT !.pc = "loop", !.spos = hash.pos, !.size = hash.limit,
                                  !.fed = <<>>, !.chunk = chunk,
                                  !.pos = hash.pos + Len(chunk),
                                  !.requested = Append(hash.requested, Request(n, 0))]
    /\ UNCHANGED <<args, config, remote, files, idx, pc, summary_lines, username, cur, calls,
                   outcomes, uploaded_packages, uploaded_projects, prompts, ext, disk, probe, err>>

\* One turn of the while loop: hash_obj.update(chunk), the count of what is left
\* of size, and the next file.read.
HashLoop ==
    /\ hash.pc = "loop" /\ hash.chunk # <<>>
    /\ LET fed == hash.fed \o hash.chunk
           size == IF Truthy(hash.given, hash.size)
                   THEN hash.size - Len(hash.chunk) ELSE hash.size
       IN  IF Truthy(hash.given, hash.size) /\ size <= 0
           THEN hash' = [hash EXCEPT !.pc = "return", !.fed = fed, !.size = size]
           ELSE LET n == read_size(hash.given, size, hash.buf_size)
                IN  \E chunk \in Read(hash.data, hash.pos, n, hash.short) :
                      hash' = [hash EXCEPT !.fed = fed, !.size = size, !.chunk = chunk,
                                           !.pos = hash.pos + Len(chunk),
                                           !.requested =
                                               Append(hash.requested,
                                                      Request(n, hash.pos - hash.spos))]
    /\ UNCHANGED <<args, config, remote, files, idx, pc, summary_lines, username, cur, calls,
                   outcomes, uploaded_packages, uploaded_projects, prompts, ext, disk, probe, err>>

\* compute_hash after the loop: the digests, data_size, file.seek(spos) and the
\* return; the caller then calls it a second time with the same arguments.
HashReturn ==
    /\ hash.pc = "return" \/ (hash.pc = "loop" /\ hash.chunk = <<>>)
    /\ hash' = [hash EXCEPT
                   !.results = Append(hash.results, hash_result(hash.fed, hash.spos, hash.pos)),
                   !.pos = restored_position(hash.spos, hash.pos),
                   !.pc = IF Len(hash.results) = 0 THEN "call" ELSE "done"]
    /\ UNCHANGED <<args, config, remote, files, idx, pc, summary_lines, username, cur, calls,
                   outcomes, uploaded_packages, uploaded_projects, prompts, ext, disk, probe, err>>

NextHash ==
    \/ HashCall
    \/ HashLoop
    \/ HashReturn

\* compute_hash called twice in a row on one stream.
SpecHash == InitHash /\ [][NextHash]_vars

TypeOK ==
    /\ pc \in {"user", "next_file", "package", "add_package", "release", "update_release",
               "add_release", "distribution", "remove_dist", "upload", "end", "raised"}
    /\ idx \in 0..(MaxFiles + 1)
    /\ (err = None) = (pc # "raised")
    /\ err \in Errors \cup {None}

\* The artifacts of the batch, numbered by their position in files.
Artifacts == 1..Len(files)

\* The server calls issued for artifact a, in order.
ArtCalls(a) == SelectSeq(calls, LAMBDA c : c.art = a)

\* The operations of the calls of artifact a that are among ops, in order.
OpsOf(a, ops) ==
    LET sel == SelectSeq(calls, LAMBDA c : c.art = a /\ c.op \in ops)
    IN  [i \in DOMAIN sel |-> sel[i].op]

\* The calls that change the repository.
Mutating == {"add_package", "add_release", "update_release", "remove_dist", "upload"}

\* Artifact a's call op was answered res.
Answered(a, op, res) ==
    \E i \in DOMAIN calls : calls[i].art = a /\ calls[i].op = op /\ calls[i].res = res

IsPrefix(s, t) == Len(s) <= Len(t) /\ \A i \in DOMAIN s : s[i] = t[i]

\* The loop is through with artifact a: it moved on to the next file, or the run ended.
Ended(a) == a < idx \/ pc \in {"raised", "end"}

\* Artifact a's turn of the loop ended without an exception.
Returned(a) == a < idx

\* The bool_input prompt with this question was shown for artifact a and answered no.
Declined(a, question) ==
    \E i \in DOMAIN prompts : prompts[i] = [art |-> a, question |-> question, answer |-> FALSE]

\* ------------------------------------------------------------------ claims

C2_NoUploadCall ==
    \A a \in Artifacts :
        (args.mode = "skip" /\ Answered(a, "distribution", "ok")) =>
            /\ OpsOf(a, {"upload"}) = <<>>
            /\ Returned(a) => outcomes[a] = "no_upload"

\* C2 amended: in skip mode an artifact whose distribution exists gets no delete
\* call and one upload call, which the remote rejects with a conflict; its turn
\* ends without an error, its outcome says that no upload occurred, and the
\* distribution stays in the repository.
C2_UploadRejected ==
    \A a \in Artifacts :
        (args.mode = "skip" /\ Answered(a, "distribution", "ok")) =>
            /\ OpsOf(a, {"remove_dist"}) = <<>>
            /\ ~Answered(a, "upload", "ok")
            /\ Len(OpsOf(a, {"upload"})) <= 1
            /\ Ended(a) =>
                 /\ Returned(a) /\ outcomes[a] = "no_upload"
                 /\ Answered(a, "upload", "Conflict")
                 /\ \A i \in DOMAIN uploaded_packages : uploaded_packages[i].art # a

C2_Witness ==
    \E a \in Artifacts :
        /\ args.mode = "skip" /\ Answered(a, "distribution", "ok")
        /\ Returned(a) /\ outcomes[a] = "no_upload"

\* C3: in force mode an artifact whose distribution exists gets one delete call
\* for that distribution and then one upload call, the delete before the upload.
C3_ForceDeletesThenUploads ==
    \A a \in Artifacts :
        (args.mode = "force" /\ Answered(a, "distribution", "ok")) =>
            LET dist == SelectSeq(calls, LAMBDA c : c.art = a /\ c.op \in {"distribution", "remove_dist", "upload"})
            IN  /\ IsPrefix(OpsOf(a, {"remove_dist", "upload"}), <<"remove_dist", "upload">>)
                /\ Ended(a) => OpsOf(a, {"remove_dist", "upload"}) = <<"remove_dist", "upload">>
                /\ \A i \in DOMAIN dist : dist[i].key = dist[1].key /\ dist[i].res = "ok"

C3_Witness ==
    \E a \in Artifacts :
        /\ args.mode = "force" /\ Answered(a, "distribution", "ok")
        /\ Returned(a) /\ outcomes[a] = "uploaded"

C5_MissingNamespaceIsFatal ==
    \A a \in Artifacts :
        (~args.auto_register /\ Answered(a, "package", "NotFound")) =>
            /\ pc = "raised" /\ err = "no_namespace" /\ exception_class(err) = "UserError"
            /\ idx = a /\ Len(outcomes) = a - 1
            /\ Len(ArtCalls(a)) = 1
            /\ calls[Len(calls)].art = a

C5_Witness ==
    \E a \in Artifacts :
        /\ ~args.auto_register /\ Answered(a, "package", "NotFound")
        /\ a = 2 /\ pc = "raised"

\* C6: when the operator declines the release-creation prompt the run ends with
\* SystemExit(-1); the release lookup is the last server call ever issued: no
\* release-create and no distribution lookup, delete or upload follows.
C6_DeclinedReleaseAborts ==
    \A a \in Artifacts :
        Declined(a, "create_release") =>
            /\ args.mode = "interactive"
            /\ pc = "raised" /\ err = "SystemExit" /\ idx = a
            /\ calls[Len(calls)] = [art |-> a, op |-> "release",
                                    key |-> <<cur.package_name, cur.version>>, res |-> "NotFound"]
            /\ OpsOf(a, {"add_release", "distribution", "remove_dist", "upload"}) = <<>>

C6_Witness ==
    \E a \in Artifacts :
        Declined(a, "create_release") /\ Answered(a, "add_package", "ok")

\* C7: in skip mode a conflict reported by the upload call raises nothing: the
\* artifact's outcome is "no upload occurred", it gets no entry in
\* uploaded_packages and no summary line, and the loop moves on to the next file.
C7_SkipSwallowsConflict ==
    \A a \in Artifacts :
        (args.mode = "skip" /\ Answered(a, "upload", "Conflict")) =>
            /\ Returned(a) /\ outcomes[a] = "no_upload"
            /\ err # "Conflict"
            /\ \A i \in DOMAIN uploaded_packages : uploaded_packages[i].art # a
            /\ \A i \in DOMAIN summary_lines : summary_lines[i].art # a

C7_Witness ==
    \E a \in Artifacts :
        /\ args.mode = "skip" /\ Answered(a, "upload", "Conflict")
        /\ Answered(a + 1, "upload", "ok")
        /\ pc = "end" /\ Len(summary_lines) = 1

\* C8: in every mode but skip a conflict reported by the upload call ends the run
\* with that Conflict: the artifact gets no outcome and no entry in
\* uploaded_packages.
C8_ConflictReraised ==
    \A a \in Artifacts :
        (args.mode # "skip" /\ Answered(a, "upload", "Conflict")) =>
            /\ pc = "raised" /\ err = "Conflict" /\ idx = a
            /\ Len(outcomes) = a - 1
            /\ \A i \in DOMAIN uploaded_packages : uploaded_packages[i].art # a

C8_Witness ==
    \E a \in Artifacts :
        /\ args.mode = "force" /\ Answered(a, "remove_dist", "ok")
        /\ Answered(a, "upload", "Conflict")

\* C9 as stated: a resolution error ends the turn of its artifact only, so it
\* never ends the run while files remain.
C9_ErrorSkipsOneArtifact ==
    ~(pc = "raised" /\ err \in ResolutionErrors /\ idx < Len(files))

\* C9 amended: a resolution error ends the whole run: the exception leaves the
\* loop, no later file gets a server call or an outcome, and no summary is logged.
C9_ResolutionErrorAbortsBatch ==
    err \in ResolutionErrors =>
        /\ pc = "raised"
        /\ \A i \in DOMAIN calls : calls[i].art <= idx
        /\ Len(outcomes) = idx - 1
        /\ summary_lines = <<>>

C9_Witness ==
    /\ pc = "raised" /\ err \in ResolutionErrors
    /\ idx = 1 /\ Len(files) > 1

\* C10 as stated: whichever prompt the operator declines, the run ends with
\* SystemExit and the prompt's lookup is the last server call ever issued.
C10_AnyDeclineAborts ==
    \A a \in Artifacts : \A q \in {"create_release", "replace"} :
        Declined(a, q) =>
            /\ pc = "raised" /\ err = "SystemExit"
            /\ calls[Len(calls)].art = a

\* C10 amended: declining the release-creation prompt ends the run with SystemExit,
\* no server call following the release lookup; declining the replace prompt ends
\* only the artifact's turn, without an error and with no server call for it
\* after the distribution lookup, and the loop moves on to the next file.
C10_DeclineAbortsOrReturns ==
    \A a \in Artifacts :
        /\ Declined(a, "create_release") =>
             /\ pc = "raised" /\ err = "SystemExit" /\ idx = a
             /\ calls[Len(calls)].art = a /\ calls[Len(calls)].op = "release"
        /\ Declined(a, "replace") =>
             /\ Returned(a) /\ outcomes[a] = "none"
             /\ LET mine == ArtCalls(a)
                IN  mine[Len(mine)].op = "distribution" /\ mine[Len(mine)].res = "ok"
             /\ OpsOf(a, {"remove_dist", "upload"}) = <<>>

C10_Witness ==
    \E a \in Artifacts :
        /\ Declined(a, "replace")
        /\ ArtCalls(a + 1) # <<>>

\* The bool_input prompt with this question was shown for artifact a and answered yes.
Accepted(a, question) ==
    \E i \in DOMAIN prompts : prompts[i] = [art |-> a, question |-> question, answer |-> TRUE]

\* C11: in interactive mode, when the distribution of an artifact exists, the
\* operator is asked whether to replace it; after a no the artifact's turn ends
\* as "nothing to do": no error, no delete and no upload for it, nothing recorded
\* for the summary; after a yes the artifact's delete and upload calls are
\* exactly one delete followed by the upload.
C11_InteractiveReplace ==
    \A a \in Artifacts :
        (args.mode = "interactive" /\ Answered(a, "distribution", "ok")) =>
            /\ Declined(a, "replace") # Accepted(a, "replace")
            /\ Declined(a, "replace") =>
                 /\ Returned(a) /\ outcomes[a] = "none"
                 /\ OpsOf(a, {"remove_dist", "upload"}) = <<>>
                 /\ (pc = "raised" => idx > a)
            /\ Accepted(a, "replace") =>
                 /\ IsPrefix(OpsOf(a, {"remove_dist", "upload"}), <<"remove_dist", "upload">>)
                 /\ Ended(a) =>
                      /\ OpsOf(a, {"remove_dist", "upload"}) = <<"remove_dist", "upload">>
                      /\ Answered(a, "remove_dist", "ok") /\ Answered(a, "upload", "ok")
                      /\ Returned(a) /\ outcomes[a] = "uploaded"

C11_Witness ==
    \E a \in Artifacts :
        /\ args.mode = "interactive"
        /\ Accepted(a, "replace")
        /\ OpsOf(a, {"remove_dist", "upload"}) = <<"remove_dist", "upload">>
        /\ Returned(a)

\* The paths named by the positional arguments.
PathsGiven == { args.files[j][i] : <<j, i>> \in { <<j, i>> \in (DOMAIN args.files) \X (1..MaxFiles + 1) :
                                                    i \in DOMAIN args.files[j] } }

\* The resource a server call is about: 0 the user, 1 the package, 2 the
\* release, 3 the distribution.
Level(op) ==
    CASE op = "user" -> 0
      [] op \in {"package", "add_package"} -> 1
      [] op \in {"release", "add_release", "update_release"} -> 2
      [] op \in {"distribution", "remove_dist", "upload"} -> 3

\* C12: whatever the positional arguments, the files of the loop are the paths
\* they name, each once, in ascending order; the loop takes them in that order,
\* so a path has at most one turn; every server call of an artifact precedes
\* every call of a later artifact, and within an artifact the package calls
\* precede the release calls, which precede the distribution calls.
C12_SortedOnceInOrder ==
    pc # "user" =>
        /\ { files[i] : i \in DOMAIN files } = PathsGiven
        /\ \A i, j \in DOMAIN files : i < j => files[i] < files[j]
        /\ idx \in 1..Len(files) + 1
        /\ Len(outcomes) < idx
        /\ \A i, j \in DOMAIN calls : i < j =>
              /\ calls[i].art <= calls[j].art
              /\ calls[i].art = calls[j].art => Level(calls[i].op) <= Level(calls[j].op)
        /\ \A i \in DOMAIN calls : calls[i].art <= idx /\ (i > 1 => calls[i].art \in Artifacts)

C12_Witness ==
    /\ args.files = [j \in 1..2 |-> IF j = 1 THEN <<2, 1>> ELSE <<1>>]
    /\ files = <<1, 2>>
    /\ OpsOf(1, Mutating) # <<>>
    /\ \A l \in 1..3 : \E i \in DOMAIN calls : calls[i].art = 2 /\ Level(calls[i].op) = l

\* Pairs of one letter in its two cases.
CasePairs == {<<"a", "A">>, <<"b", "B">>, <<"f", "F">>, <<"o", "O">>, <<"r", "R">>}

\* Names a and b are the same up to the case of their letters.
OnlyCaseDiffers(a, b) ==
    /\ Len(a) = Len(b)
    /\ \A i \in DOMAIN a :
          a[i] = b[i] \/ \E p \in CasePairs : {a[i], b[i]} = {p[1], p[2]}

\* get_package_name was applied to a caller's name and an extracted name.
NamesCompared ==
    /\ probe.fn = "get_package_name" /\ probe.result.err # "pending"
    /\ probe.args_package # NoName /\ probe.attrs_name # NoName

\* C13: a caller's name that differs from the extracted name by letter case
\* alone is accepted and becomes the package name; for an artifact that is
\* neither Conda nor Standard-Python, a caller's name that differs in any
\* other way is rejected with the name mismatch error.
C13_CaseInsensitiveMatch ==
    NamesCompared =>
        /\ OnlyCaseDiffers(probe.args_package, probe.attrs_name) =>
              probe.result = [err |-> None, val |-> probe.args_package]
        /\ (probe.package_type \notin {"conda", "pypi"}
              /\ ~OnlyCaseDiffers(probe.args_package, probe.attrs_name)) =>
              probe.result = [err |-> "name_mismatch", val |-> NoName]

C13_Witness ==
    /\ NamesCompared
    /\ probe.args_package # probe.attrs_name
    /\ OnlyCaseDiffers(probe.args_package, probe.attrs_name)
    /\ probe.result.err = None

\* Names a and b are the same up to hyphens standing for underscores or
\* underscores for hyphens.
OnlyHyphenDiffers(a, b) ==
    /\ Len(a) = Len(b)
    /\ \A i \in DOMAIN a : a[i] = b[i] \/ {a[i], b[i]} = {"-", "_"}

\* Name a is name b with an underscore for each of b's hyphens.
UnderscoresForHyphens(a, b) ==
    /\ Len(a) = Len(b)
    /\ \A i \in DOMAIN a : IF b[i] = "-" THEN a[i] = "_" ELSE a[i] = b[i]

\* C14 as stated: for a Conda or Standard-Python artifact, a caller's name and
\* an extracted name that differ only by hyphens versus underscores, in either
\* direction, are accepted.
C14_HyphenEitherWay ==
    (NamesCompared /\ probe.package_type \in {"conda", "pypi"}
      /\ OnlyHyphenDiffers(probe.args_package, probe.attrs_name)) =>
        probe.result = [err |-> None, val |-> probe.args_package]

\* C14 amended: for a Standard-Python artifact a caller's name that is the
\* extracted name with an underscore for every hyphen is accepted; every other
\* hyphen-versus-underscore difference is rejected with the name mismatch
\* error: for a Conda artifact, with a hyphen for an underscore, or with only
\* some of the hyphens replaced.
C14_UnderscoreForHyphen ==
    NamesCompared =>
        LET std == probe.package_type = "pypi"
                     /\ UnderscoresForHyphens(probe.args_package, probe.attrs_name)
        IN  /\ std => probe.result = [err |-> None, val |-> probe.args_package]
            /\ (OnlyHyphenDiffers(probe.args_package, probe.attrs_name)
                  /\ probe.args_package # probe.attrs_name /\ ~std) =>
                  probe.result = [err |-> "name_mismatch", val |-> NoName]

C14_Witness ==
    /\ NamesCompared
    /\ probe.package_type = "pypi"
    /\ probe.args_package # probe.attrs_name
    /\ UnderscoresForHyphens(probe.args_package, probe.attrs_name)
    /\ probe.result.err = None

\* C15: an artifact of type T is accepted for a package that declares types
\* exactly when T is one of them, or T and one of them are both in the Conda /
\* Standard-Python family; every other pair is rejected with the type error.
\* A package that declares no type accepts every artifact.
C15_TypeCompatibility ==
    (probe.fn = "type_check" /\ probe.result # "pending") =>
        LET family == {"conda", "pypi"}
            compatible ==
                \/ probe.package_type \in probe.package_types
                \/ probe.package_type \in family /\ probe.package_types \cap family # {}
        IN  /\ probe.package_types # {} =>
                  probe.result = (IF compatible THEN "accepted" ELSE "type_incompatible")
            /\ probe.package_types = {} => probe.result = "accepted"

C15_Witness ==
    /\ probe.fn = "type_check"
    /\ probe.package_types = {"conda", "ipynb"}
    /\ probe.package_type = "pypi"
    /\ probe.result = "accepted"

\* upload_package is running for the file at idx.
InProgress ==
    pc \in {"package", "add_package", "release", "update_release", "add_release",
            "distribution", "remove_dist", "upload"}

\* C16: a package name or version given on the command line is the one of every
\* server call of every artifact, whatever the file holds; the name or version
\* of the file is used only when the command line gives none; with neither,
\* the run ends with the missing-name or missing-version error before any
\* server call for the artifact.
C16_ExplicitValueWins ==
    /\ \A i \in DOMAIN calls : calls[i].art \in Artifacts =>
          /\ args.package # NoName => calls[i].key[1] = args.package
          /\ (args.version # None /\ Len(calls[i].key) >= 2) => calls[i].key[2] = args.version
          /\ calls[i].art = idx /\ InProgress =>
                /\ calls[i].key[1] = cur.package_name
                /\ Len(calls[i].key) >= 2 => calls[i].key[2] = cur.version
    /\ InProgress =>
          /\ cur.package_name = (IF args.package # NoName THEN args.package ELSE cur.attrs_name)
          /\ cur.version = (IF args.version # None THEN args.version ELSE cur.attrs_version)
          /\ cur.package_name # NoName /\ cur.version # None
    /\ err = "no_name" => args.package = NoName /\ ArtCalls(idx) = <<>>
    /\ err = "no_version" => args.version = None /\ ArtCalls(idx) = <<>>

C16_Witness ==
    /\ pc = "upload"
    /\ args.package = NameFoo /\ cur.attrs_name = NameFooCap
    /\ args.version = V1 /\ cur.attrs_version = V2
    /\ \E i \in DOMAIN calls :
          calls[i].art = idx /\ calls[i].op = "add_release" /\ calls[i].key = <<NameFoo, V1>>

\* C19: a user named by --user or by the upload_user setting is looked up, and
\* when the repository does not know the name the run ends with the unknown
\* user error, that lookup being its only server call: no file is taken up. The
\* lookup by name is issued exactly when the user is named; otherwise the login
\* of the authenticated caller is used as it is.
C19_UnknownUserIsFatal ==
    pc # "user" =>
        LET named == args.user # None \/ config.upload_user # None
            name == IF args.user # None THEN args.user ELSE config.upload_user
            lookups == SelectSeq(calls, LAMBDA c : c.op = "user" /\ c.key # <<>>)
        IN  /\ calls # <<>>
            /\ named =>
                  /\ calls[1] = [art |-> 0, op |-> "user", key |-> <<name>>,
                                 res |-> IF name \in remote.users THEN "ok" ELSE "NotFound"]
                  /\ Len(lookups) = 1
                  /\ username = name
            /\ (named /\ name \notin remote.users) =>
                  /\ pc = "raised" /\ err = "user_not_found"
                  /\ Len(calls) = 1 /\ idx = 0 /\ outcomes = <<>>
            /\ ~named =>
                  /\ calls[1] = [art |-> 0, op |-> "user", key |-> <<>>, res |-> "ok"]
                  /\ lookups = <<>>
                  /\ username = "me"
            /\ err = "user_not_found" => named /\ name \notin remote.users

C19_Witness ==
    /\ args.user = None /\ config.upload_user = "ghost"
    /\ pc = "raised" /\ err = "user_not_found"
    /\ Len(calls) = 1

\* C20: a notebook that nbformat cannot read is skipped when the mode is not
\* force: no server call is issued for it and the loop goes on to the next
\* file; in force mode the notebook is not read beforehand, no file is skipped
\* as an invalid notebook, and only in force mode does such a notebook reach
\* upload_package.
C20_InvalidNotebookSkipped ==
    /\ \A a \in Artifacts : (a <= Len(outcomes) /\ outcomes[a] = "invalid_notebook") =>
          /\ args.mode # "force"
          /\ ArtCalls(a) = <<>>
          /\ Returned(a)
          /\ pc = "raised" => idx > a
    /\ args.mode = "force" =>
          \A a \in DOMAIN outcomes : outcomes[a] # "invalid_notebook"
    /\ (InProgress /\ cur.package_type = "ipynb" /\ ~cur.nb_ok) => args.mode = "force"

C20_Witness ==
    \E a \in Artifacts :
        /\ a <= Len(outcomes) /\ outcomes[a] = "invalid_notebook"
        /\ Answered(a + 1, "upload", "ok")

\* compute_hash has returned at least once.
Hashed == hash.pc # "none" /\ hash.results # <<>>

\* C17: compute_hash called twice in a row on a stream returns the same
\* (hex, base64, size) triple both times, and when a call has returned the
\* stream is at the position it had before the call, whatever the stream, its
\* position, the size and the buf_size.
C17_IdempotentAndRestoring ==
    Hashed =>
        /\ hash.pc \in {"call", "done"} => hash.pos = hash.spos
        /\ Len(hash.results) = 2 => hash.results[1] = hash.results[2]

C17_Witness ==
    /\ Hashed /\ hash.pc = "done"
    /\ hash.spos > 0
    /\ Truthy(hash.given, hash.limit)
    /\ hash.results[2].data_size = hash.limit
    /\ hash.limit > hash.buf_size

\* The bytes of the stream from the position of the call to its end.
Remaining == Len(hash.data) - hash.spos

\* C18 as stated: with a size L of zero or more that is smaller than the number
\* of bytes left in the stream, compute_hash returns L as its size and the
\* digests of the L bytes that follow the starting position.
C18_LimitRespected ==
    (Hashed /\ hash.given /\ hash.limit < Remaining) =>
        hash.results[1] =
            hash_result(SubSeq(hash.data, hash.spos + 1, hash.spos + hash.limit),
                        hash.spos, hash.spos + hash.limit)

\* The same for every size of one or more: this the code meets.
PositiveLimitRespected ==
    (Hashed /\ hash.given /\ hash.limit > 0 /\ hash.limit < Remaining) =>
        hash.results[1] =
            hash_result(SubSeq(hash.data, hash.spos + 1, hash.spos + hash.limit),
                        hash.spos, hash.spos + hash.limit)

\* The artifacts whose upload call succeeded.
UploadedArtifacts == { a \in Artifacts : Answered(a, "upload", "ok") }

\* C21: when the loop is through, the summary has one package line for each
\* artifact whose upload succeeded, in the order of the files, and none for an
\* artifact whose upload was skipped on a conflict, whose replacement the
\* operator declined or whose notebook could not be read; a line gives the url
\* the upload reported, or the one put together from the user and the package
\* name when it reported none.
C21_SummaryLines ==
    pc = "end" =>
        /\ { summary_lines[i].art : i \in DOMAIN summary_lines } = UploadedArtifacts
        /\ \A i, j \in DOMAIN summary_lines : i < j => summary_lines[i].art < summary_lines[j].art
        /\ \A a \in Artifacts :
              outcomes[a] \in {"no_upload", "none", "invalid_notebook"} => a \notin UploadedArtifacts
        /\ \A a \in UploadedArtifacts : outcomes[a] = "uploaded"
        /\ Len(uploaded_packages) = Len(summary_lines)
        /\ \A i \in DOMAIN summary_lines :
              LET reported == uploaded_packages[i].upload_info.url
                  name == CHOOSE n \in {NameFoo, NameBar, NameFooCap} :
                              \E c \in DOMAIN calls :
                                  /\ calls[c].art = summary_lines[i].art
                                  /\ calls[c].op = "upload" /\ calls[c].key[1] = n
              IN  /\ uploaded_packages[i].art = summary_lines[i].art
                  /\ reported # NoUrl => summary_lines[i].url = reported
                  /\ reported = NoUrl =>
                        summary_lines[i].url = <<"https://anaconda.org", username, name>>

C21_Witness ==
    /\ pc = "end"
    /\ \E i \in DOMAIN summary_lines : summary_lines[i].url = <<"remote-url">>
    /\ \E a \in Artifacts : outcomes[a] = "no_upload"

\* The last server call so far.
LastCall == calls[Len(calls)]

\* C22 as stated: when the repository answers the creation of a package or of
\* a release with a conflict, another client having created it since the
\* lookup, the run does not end with an error.
C22_CreateConflictHandled ==
    \A a \in Artifacts :
        (Answered(a, "add_package", "Conflict") \/ Answered(a, "add_release", "Conflict")) =>
            pc # "raised"

\* What the code does instead: a conflict answered to the creation of a package
\* or of a release is not handled; the run ends with that Conflict, the
\* creation being its last server call, and the artifact is not uploaded.
CreateConflictIsFatal ==
    \A a \in Artifacts :
        /\ Answered(a, "add_package", "Conflict") =>
              /\ pc = "raised" /\ err = "conflict_package" /\ idx = a
              /\ LastCall.art = a /\ LastCall.op = "add_package"
        /\ Answered(a, "add_release", "Conflict") =>
              /\ pc = "raised" /\ err = "conflict_release" /\ idx = a
              /\ LastCall.art = a /\ LastCall.op = "add_release"

CreateConflictReached ==
    /\ pc = "raised" /\ err = "conflict_release"
    /\ Answered(idx, "release", "NotFound")
    /\ Answered(idx, "add_release", "Conflict")

\* C23: when the release lookup of an artifact finds the release, no
\* release-create call is issued for the artifact, and the release-update calls
\* issued for it are exactly one with --force-metadata-update and none without.
C23_ExistingReleaseNotCreated ==
    \A a \in Artifacts :
        Answered(a, "release", "ok") =>
            /\ OpsOf(a, {"add_release"}) = <<>>
            /\ ~args.force_metadata_update => OpsOf(a, {"update_release"}) = <<>>
            /\ args.force_metadata_update =>
                  OpsOf(a, {"update_release"}) =
                      (IF idx = a /\ pc = "update_release" THEN <<>> ELSE <<"update_release">>)

C23_Witness ==
    \E a \in Artifacts :
        /\ args.force_metadata_update
        /\ Answered(a, "release", "ok")
        /\ OpsOf(a, {"update_release"}) = <<"update_release">>
        /\ Returned(a)

\* C24: in the modes fail and skip, with --force-metadata-update and with no
\* mode at all, no distribution-delete call is ever issued; when the
\* distribution lookup of an artifact finds the distribution, the upload call
\* is the artifact's next and last distribution call.
C24_NoDeleteOutsideForce ==
    args.mode \notin {"force", "interactive"} =>
        /\ \A i \in DOMAIN calls : calls[i].op # "remove_dist"
        /\ \A a \in Artifacts :
              Answered(a, "distribution", "ok") =>
                  OpsOf(a, {"distribution", "remove_dist", "upload"}) =
                      (IF idx = a /\ pc = "upload"
                       THEN <<"distribution">> ELSE <<"distribution", "upload">>)

C24_Witness ==
    \E a \in Artifacts :
        /\ args.force_metadata_update
        /\ Answered(a, "distribution", "ok")
        /\ Answered(a, "upload", "Conflict")

\* The bytes asked for by the requests of a sequence, added up.
RECURSIVE Asked_for(_)
Asked_for(requests) ==
    IF requests = <<>> THEN 0 ELSE Head(requests).n + Asked_for(Tail(requests))

\* The read requests of the first call of compute_hash.
FirstCall == SelectSeq(hash.requested, LAMBDA r : r.call = 1)

\* C25 as stated: no read asks for more than buf_size bytes, and with a size L
\* of one or more the bytes asked for by the reads of one call add up to L at
\* most, also when reads return fewer bytes than asked.
C25_RequestedWithinLimit ==
    hash.pc # "none" =>
        /\ \A i \in DOMAIN hash.requested : hash.requested[i].n <= hash.buf_size
        /\ Truthy(hash.given, hash.limit) => Asked_for(FirstCall) <= hash.limit

\* C25 amended: no read asks for more than buf_size bytes, and with a size L of
\* one or more no read asks for more than is left of L after the bytes already
\* read, so that the bytes read never exceed L; the bytes asked for can add up
\* to more than L when a read returns fewer bytes than asked.
C25_ConsumedWithinLimit ==
    hash.pc # "none" =>
        /\ \A i \in DOMAIN hash.requested : hash.requested[i].n <= hash.buf_size
        /\ Truthy(hash.given, hash.limit) =>
              /\ \A i \in DOMAIN hash.requested :
                    hash.requested[i].consumed + hash.requested[i].n <= hash.limit
              /\ hash.pc \in {"loop", "return"} => hash.pos - hash.spos <= hash.limit
              /\ \A i \in DOMAIN hash.results : hash.results[i].data_size <= hash.limit

C25_Witness ==
    /\ hash.pc = "done" /\ hash.short
    /\ Truthy(hash.given, hash.limit)
    /\ hash.results[1].data_size = hash.limit
    /\ Asked_for(FirstCall) > hash.limit
    /\ \E i \in DOMAIN hash.requested :
          /\ hash.requested[i].consumed > 0
          /\ hash.requested[i].n < hash.buf_size

\* C26: when the turn of a file that does not exist comes, the run ends with
\* the missing file error: no server call is issued for that file or for a
\* later one, the files before it have had their whole turn, and what they
\* uploaded is in the repository; no file that does not exist reaches
\* upload_package.
C26_MissingFileIsFatal ==
    /\ err = "file_missing" =>
          /\ pc = "raised" /\ idx \in Artifacts
          /\ \A i \in DOMAIN calls : calls[i].art < idx
          /\ Len(outcomes) = idx - 1
          /\ \A i \in DOMAIN calls :
                (calls[i].op = "upload" /\ calls[i].res = "ok") =>
                    HasDist(remote, calls[i].key[1], calls[i].key[2], calls[i].key[3])
    /\ InProgress => cur.exists

C26_Witness ==
    /\ err = "file_missing" /\ idx = 2
    /\ Answered(1, "upload", "ok")

\* C27: when the package name or the version of an artifact cannot be
\* resolved, or the name given on the command line does not match the name in
\* the file, the run ends with that error before any server call for the
\* artifact: no package is looked up or created for it; upload_package issues
\* calls only with a name and a version resolved, the two names matching.
C27_ResolvedBeforeAnyCall ==
    /\ err \in {"no_name", "name_mismatch", "no_version"} =>
          /\ pc = "raised" /\ idx \in Artifacts
          /\ \A i \in DOMAIN calls : calls[i].art < idx
    /\ InProgress =>
          /\ cur.package_name # NoName /\ cur.version # None
          /\ (args.package # NoName /\ cur.attrs_name # NoName) =>
                \/ OnlyCaseDiffers(args.package, cur.attrs_name)
                \/ /\ cur.package_type = "pypi"
                   /\ UnderscoresForHyphens(Lower(args.package), Lower(cur.attrs_name))
    /\ \A i \in DOMAIN calls : calls[i].art \in Artifacts =>
          /\ calls[i].key[1] # NoName
          /\ Len(calls[i].key) >= 2 => calls[i].key[2] # None

C27_Witness ==
    /\ err = "no_version" /\ idx = 2
    /\ ArtCalls(1) # <<>> /\ ArtCalls(2) = <<>>
    /\ ~HasPackage(remote, NameFoo)

\* C28: whatever the mode and whatever the repository answers, also with other
\* clients changing it during the run, each kind of server call is issued at
\* most once for an artifact: one package-create, one release-create, one
\* distribution-delete and one upload at most, and no lookup twice.
C28_NoCallRepeated ==
    \A a \in Artifacts :
        \A op \in {"package", "add_package", "release", "update_release", "add_release",
                    "distribution", "remove_dist", "upload"} :
            Len(OpsOf(a, {op})) <= 1

C28_Witness ==
    \E a \in Artifacts :
        /\ OpsOf(a, Mutating) = <<"add_package", "add_release", "upload">>
        /\ Answered(a, "distribution", "NotFound")
        /\ Answered(a, "upload", "Conflict")
        /\ pc = "raised"

\* The distribution an upload call of artifact a was about is in the repository.
UploadTargetPresent(a) ==
    \E i \in DOMAIN calls :
        /\ calls[i].art = a /\ calls[i].op = "upload"
        /\ HasDist(remote, calls[i].key[1], calls[i].key[2], calls[i].key[3])

\* C29 as stated: in force mode, once the distribution was deleted, an upload
\* that fails with a conflict leaves the run ended with the basename absent
\* from the release.
C29_FailedUploadLeavesAbsent ==
    args.mode = "force" =>
        \A a \in Artifacts :
            (Answered(a, "remove_dist", "ok") /\ Answered(a, "upload", "Conflict")) =>
                ~UploadTargetPresent(a)

\* C29 amended: in force mode the delete of an existing distribution comes
\* before the upload, and an upload rejected after it ends the run with the
\* Conflict as the last server call, so nothing puts the deleted file back; the
\* basename is then in the release, as the file another client uploaded after
\* the delete.
C29_DeleteNeverUndone ==
    args.mode = "force" =>
        \A a \in Artifacts :
            /\ Answered(a, "distribution", "ok") =>
                  IsPrefix(OpsOf(a, {"remove_dist", "upload"}), <<"remove_dist", "upload">>)
            /\ (Answered(a, "remove_dist", "ok") /\ Answered(a, "upload", "Conflict")) =>
                  /\ pc = "raised" /\ err = "Conflict" /\ idx = a
                  /\ LastCall.art = a /\ LastCall.op = "upload"
                  /\ UploadTargetPresent(a)
                  /\ ext > 0

C29_Witness ==
    \E a \in Artifacts :
        /\ args.mode = "force"
        /\ Answered(a, "remove_dist", "ok")
        /\ Answered(a, "upload", "Conflict")
        /\ pc = "raised"

\* What mode fail does with artifact a: nothing is asked, a release that is
\* missing is created, nothing is deleted, the upload is attempted over a
\* distribution that is in place, and the Conflict it gets ends the run.
FailBehaviour(a) ==
    /\ \A i \in DOMAIN prompts : prompts[i].art # a
    /\ OpsOf(a, {"remove_dist"}) = <<>>
    /\ Answered(a, "release", "NotFound") =>
          IsPrefix(OpsOf(a, {"release", "update_release", "add_release", "distribution"}),
                   <<"release", "add_release", "distribution">>)
    /\ Answered(a, "distribution", "ok") =>
          \/ pc = "upload" /\ idx = a
          \/ Answered(a, "upload", "Conflict")
    /\ Answered(a, "upload", "Conflict") =>
          /\ pc = "raised" /\ err = "Conflict" /\ idx = a
          /\ Len(outcomes) = a - 1

\* C30: with no mode option given the reconciliation acts as in mode fail: every
\* decision that reads args.mode comes out the same for None and for "fail",
\* whatever the operator's answer, the package type and the notebook's
\* readability, and a run with either mode shows the same behaviour for every
\* artifact, the calls and the outcome of mode fail.
C30_UnsetActsAsFail ==
    /\ \A answer \in BOOLEAN :
          /\ release_not_found(None, answer) = release_not_found("fail", answer)
          /\ existing_file(None, answer) = existing_file("fail", answer)
    /\ on_conflict(None) = on_conflict("fail")
    /\ \A t \in PackageTypes, nb_ok \in BOOLEAN :
          skip_notebook(t, None, nb_ok) = skip_notebook(t, "fail", nb_ok)
    /\ args.mode \in {None, "fail"} =>
          /\ Answers = {TRUE}
          /\ \A a \in Artifacts : FailBehaviour(a)

C30_Witness ==
    \E a \in Artifacts :
        /\ args.mode = None /\ ~args.force_metadata_update
        /\ Answered(a, "release", "NotFound")
        /\ Answered(a, "add_release", "ok")
        /\ pc = "raised"
        /\ \E b \in Artifacts :
              /\ Answered(b, "distribution", "ok")
              /\ Answered(b, "upload", "Conflict")

====
